---- MODULE Spec2Model ----
(***************************************************************************)
(* Model of the adjacency-map graph classes of algorithms/graph.py:        *)
(* Vertex, Edge, Digraph and its undirected subclass Graph.                *)
(*                                                                         *)
(* A Vertex is an object compared by identity (Vertex.__eq__ is `is`), so  *)
(* a vertex is modelled by a handle 1..NumVertices.  An Edge is an object  *)
(* with the fields _head, _tail and _tag; two Edge objects with the same   *)
(* endpoints are different objects (the model tells them apart by tag) but *)
(* compare equal under Edge.__eq__.                                        *)
(*                                                                         *)
(* A Python dict is modelled by a TLA+ function whose DOMAIN is the key    *)
(* set.  The graph methods do not depend on the iteration order of a dict; *)
(* the traversal iterates a dict in increasing order of the handles.       *)
(*                                                                         *)
(* The breadth-first traversal of algorithms/graphalgo.py, which           *)
(* chap14/bfs.py calls, is modelled from section 4.5 of the specification, *)
(* over the traversal fields that Vertex.__init__ creates.                 *)
(***************************************************************************)
EXTENDS Integers, FiniteSets, Sequences, TLC

\* ------------------------------------------------------------------ bounds
NumVertices == 2        \* Vertex objects the caller has allocated
NumTags     == 2        \* Edge objects the caller allocates per ordered pair
MaxEdges    == 2        \* insert_edge is not called once edge_count() reaches this
NumBfsVertices == 3     \* vertices of a traversed graph
MaxBfsEdges    == 3     \* insert_edge calls that build a traversed graph
MaxQueue       == 2     \* enqueue is not called once the queue has this length
MaxNodes       == 2     \* insert_back is not called once this many nodes were made

Vertices == 1 .. NumVertices
Tags     == 1 .. NumTags

VARIABLES
    directed,   \* TRUE: the object is a Digraph; FALSE: it is a Graph
    outgoing,   \* self._outgoing
    incoming,   \* self._incoming
    last,       \* the last call: the method's name and the exception it raised
    vertex,     \* the traversal fields of every Vertex object
    bfs,        \* the traversal in progress: its frontier, counter and position
    queue,      \* the storage of a LinkedQueue
    slist       \* a SinglyLinkedList: its nodes' fields and its _size

vars == <<directed, outgoing, incoming, last, vertex, bfs, queue, slist>>

\* ------------------------------------------------------------------- Edge
\* Python's None.
None == [head |-> 0, tail |-> 0, tag |-> 0]

\* Edge.__init__(u, v, tag): an Edge object.
Edge(u, v, tag) == [head |-> u, tail |-> v, tag |-> tag]

\* float('inf'), the distance of a vertex no traversal has reached.
Infinity == -1

\* Python's None where a Vertex is expected.
NoVertex == 0

\* Vertex.__init__: the traversal fields of a new Vertex.
Vertex_init ==
    [color |-> "white", predecessor |-> NoVertex, distance |-> Infinity,
     discover |-> 0, finish |-> 0]

\* No traversal has been called on the vertices VS.
BfsIdle(VS) ==
    [pc |-> "idle", mode |-> "none", source |-> NoVertex, queue |-> <<>>,
     time |-> 0, cur |-> NoVertex, todo |-> <<>>, rest |-> <<>>, runs |-> 0,
     enq |-> [v \in VS |-> 0], first |-> [v \in VS |-> Vertex_init]]

\* Every Edge object the caller can allocate.
Edges == {Edge(u, v, t) : u \in Vertices, v \in Vertices, t \in Tags}

\* Edge.endpoints()
endpoints(e) == <<e.head, e.tail>>

\* Edge.__eq__ / Edge.__hash__: equality on the endpoint identities only.
Edge_eq(e1, e2) == e1.head = e2.head /\ e1.tail = e2.tail

\* Vertex._tag: the tag the caller gave each Vertex object.  Tags are
\* labels, not identities: the caller gives every second object the tag of
\* the object before it.
Vertex_tag(v) == (v + 1) \div 2

\* ------------------------------------------------------------------- dict
\* {}
EmptyDict == [k \in {} |-> None]

\* d[k] = x
DictSet(d, k, x) == [j \in (DOMAIN d) \cup {k} |-> IF j = k THEN x ELSE d[j]]

\* d.pop(k)   (only ever called with k in d, see Digraph_remove_edge)
DictPop(d, k) == [j \in (DOMAIN d) \ {k} |-> d[j]]

\* d.values()
DictValues(d) == {d[k] : k \in DOMAIN d}

\* ---------------------------------------------------------------- results
\* The pair of maps of a graph object.
Maps(out, inc) == [outgoing |-> out, incoming |-> inc]

\* The outcome of a call: the maps afterwards, the exception raised ("" for
\* none) and the value returned: res for an edge or None, n for a number,
\* keys for a view of vertices, es for a collection of edges.
Outcome(G, err, res, n, keys, es) ==
    [G |-> G, err |-> err, res |-> res, n |-> n, keys |-> keys, es |-> es]

Returns(G, res)     == Outcome(G, "", res, -1, {}, {})
ReturnsInt(G, n)    == Outcome(G, "", None, n, {}, {})
ReturnsKeys(G, ks)  == Outcome(G, "", None, -1, ks, {})
ReturnsEdges(G, es) == Outcome(G, "", None, -1, {}, es)
Raises(G, err)      == Outcome(G, err, None, -1, {}, {})

\* ---------------------------------------------------------------- Digraph
\* Digraph.vertices(): the keys of self._outgoing.
vertices(G) == DOMAIN G.outgoing

\* Digraph.__contains__ (for a Vertex argument).
contains(G, v) == v \in vertices(G)

\* Digraph._validate_vertex: the exception it raises, "" when it returns.
validate_vertex(G, v) == IF ~contains(G, v) THEN "ValueError" ELSE ""

\* Digraph.vertex_count()
vertex_count(G) == Cardinality(DOMAIN G.outgoing)

RECURSIVE SumLen(_, _)
SumLen(out, todo) ==
    IF todo = {} THEN 0
    ELSE LET v == CHOOSE x \in todo : TRUE
         IN  Cardinality(DOMAIN out[v]) + SumLen(out, todo \ {v})

\* Digraph.edge_count(): sum of len(self._outgoing[v]).
edge_count(G) == SumLen(G.outgoing, DOMAIN G.outgoing)

\* Digraph.edges(): a Python set of the values of all secondary maps.  A set
\* keeps one element per Edge.__eq__ class, so the result is given by the
\* endpoint pairs of its elements.
edges(G) == {endpoints(e) : e \in UNION {DictValues(G.outgoing[u]) : u \in DOMAIN G.outgoing}}

\* The body of Digraph.edge after both validations.
edge_lookup(G, u, v) ==
    IF v \in DOMAIN G.outgoing[u] THEN G.outgoing[u][v] ELSE None

\* Digraph.edge with the second validation forgotten.
edge_validates_head_only(G, u, v) ==
    IF validate_vertex(G, u) # "" THEN Raises(G, validate_vertex(G, u))
    ELSE Returns(G, edge_lookup(G, u, v))

\* Digraph.edge(u, v)
edge(G, u, v) ==
    IF validate_vertex(G, u) # "" THEN Raises(G, validate_vertex(G, u))
    ELSE IF validate_vertex(G, v) # "" THEN Raises(G, validate_vertex(G, v))
    ELSE Returns(G, edge_lookup(G, u, v))

\* Digraph.out_degree(v)
out_degree(G, v) ==
    IF validate_vertex(G, v) # "" THEN Raises(G, validate_vertex(G, v))
    ELSE ReturnsInt(G, Cardinality(DOMAIN G.outgoing[v]))

\* Digraph.in_degree(v)
in_degree(G, v) ==
    IF validate_vertex(G, v) # "" THEN Raises(G, validate_vertex(G, v))
    ELSE ReturnsInt(G, Cardinality(DOMAIN G.incoming[v]))

\* Digraph.predecessors(v)
predecessors(G, v) ==
    IF validate_vertex(G, v) # "" THEN Raises(G, validate_vertex(G, v))
    ELSE ReturnsKeys(G, DOMAIN G.incoming[v])

\* Digraph.successors(v)
successors(G, v) ==
    IF validate_vertex(G, v) # "" THEN Raises(G, validate_vertex(G, v))
    ELSE ReturnsKeys(G, DOMAIN G.outgoing[v])

\* Digraph.outgoing_edges(v)
outgoing_edges(G, v) ==
    IF validate_vertex(G, v) # "" THEN Raises(G, validate_vertex(G, v))
    ELSE ReturnsEdges(G, DictValues(G.outgoing[v]))

\* Digraph.incoming_edges(v)
incoming_edges(G, v) ==
    IF validate_vertex(G, v) # "" THEN Raises(G, validate_vertex(G, v))
    ELSE ReturnsEdges(G, DictValues(G.incoming[v]))

\* Digraph.insert_vertex without the membership test.
insert_vertex_always(G, v) ==
    Maps(DictSet(G.outgoing, v, EmptyDict), DictSet(G.incoming, v, EmptyDict))

\* Digraph.insert_vertex(v): the maps afterwards (the call returns v).
insert_vertex(G, v) ==
    IF ~contains(G, v)
    THEN Maps(DictSet(G.outgoing, v, EmptyDict), DictSet(G.incoming, v, EmptyDict))
    ELSE G

\* Digraph.insert_edge writing the incoming entry under the wrong keys
\* (self._incoming[u][v] = e).
Digraph_insert_edge_wrong_incoming(G, e) ==
    LET u  == endpoints(e)[1]
        v  == endpoints(e)[2]
        G1 == IF ~contains(G, u) THEN insert_vertex(G, u) ELSE G
        G2 == IF ~contains(G1, v) THEN insert_vertex(G1, v) ELSE G1
        out == DictSet(G2.outgoing, u, DictSet(G2.outgoing[u], v, e))
        inc == DictSet(G2.incoming, u, DictSet(G2.incoming[u], v, e))
    IN  Returns(Maps(out, inc), e)

\* Digraph.insert_edge(e)
Digraph_insert_edge(G, e) ==
    LET u  == endpoints(e)[1]
        v  == endpoints(e)[2]
        G1 == IF ~contains(G, u) THEN insert_vertex(G, u) ELSE G
        G2 == IF ~contains(G1, v) THEN insert_vertex(G1, v) ELSE G1
        out == DictSet(G2.outgoing, u, DictSet(G2.outgoing[u], v, e))
        inc == DictSet(G2.incoming, v, DictSet(G2.incoming[v], u, e))
    IN  Returns(Maps(out, inc), e)

\* Digraph.remove_edge popping the outgoing entry only.
Digraph_remove_edge_outgoing_only(G, u, v) ==
    LET r == edge(G, u, v)
        e == r.res
    IN  IF r.err # "" THEN r
        ELSE IF e # None
             THEN Returns(Maps(DictSet(G.outgoing, u, DictPop(G.outgoing[u], v)),
                               G.incoming), e)
             ELSE Returns(G, e)

\* Digraph.remove_edge without its return statement.
Digraph_remove_edge_returns_nothing(G, u, v) ==
    LET r == edge(G, u, v)
        e == r.res
    IN  IF r.err # "" THEN r
        ELSE IF e # None
             THEN Returns(Maps(DictSet(G.outgoing, u, DictPop(G.outgoing[u], v)),
                               DictSet(G.incoming, v, DictPop(G.incoming[v], u))), None)
             ELSE Returns(G, None)

\* Digraph.remove_edge popping the entries of both directions.
Digraph_remove_edge_both_ways(G, u, v) ==
    LET r == edge(G, u, v)
        e == r.res
        o1 == DictSet(G.outgoing, u, DictPop(G.outgoing[u], v))
        i1 == DictSet(G.incoming, v, DictPop(G.incoming[v], u))
    IN  IF r.err # "" THEN r
        ELSE IF e # None
             THEN Returns(Maps(DictSet(o1, v, DictPop(o1[v], u)),
                               DictSet(i1, u, DictPop(i1[u], v))), e)
             ELSE Returns(G, e)

\* Digraph.remove_edge(u, v).  An Edge object is truthy, so `if e:` is
\* `e is not None`.
Digraph_remove_edge(G, u, v) ==
    LET r == edge(G, u, v)
        e == r.res
    IN  IF r.err # "" THEN r
        ELSE IF e # None
             THEN Returns(Maps(DictSet(G.outgoing, u, DictPop(G.outgoing[u], v)),
                               DictSet(G.incoming, v, DictPop(G.incoming[v], u))), e)
             ELSE Returns(G, e)

\* Digraph.reverse as two assignments in sequence instead of a swap.
reverse_sequential(G) == Maps(G.incoming, G.incoming)

\* Digraph.reverse()
reverse(G) == Maps(G.incoming, G.outgoing)

\* ------------------------------------------------------------------ Graph
\* Graph.insert_edge recording e for (u, v) only.
Graph_insert_edge_one_way(G, e) == Digraph_insert_edge(G, e)

\* Graph.insert_edge(e)
Graph_insert_edge(G, e) ==
    LET u  == endpoints(e)[1]
        v  == endpoints(e)[2]
        G1 == IF ~contains(G, u) THEN insert_vertex(G, u) ELSE G
        G2 == IF ~contains(G1, v) THEN insert_vertex(G1, v) ELSE G1
        o1 == DictSet(G2.outgoing, u, DictSet(G2.outgoing[u], v, e))
        i1 == DictSet(G2.incoming, v, DictSet(G2.incoming[v], u, e))
        o2 == DictSet(o1, v, DictSet(o1[v], u, e))
        i2 == DictSet(i1, u, DictSet(i1[u], v, e))
    IN  Returns(Maps(o2, i2), e)

\* Graph.remove_edge without the second call.
Graph_remove_edge_one_way(G, u, v) == Digraph_remove_edge(G, u, v)

\* Graph.remove_edge(u, v): the first call's exception propagates.
Graph_remove_edge(G, u, v) ==
    LET r1 == Digraph_remove_edge(G, u, v)
    IN  IF r1.err # "" THEN r1 ELSE Digraph_remove_edge(r1.G, v, u)

\* ------------------------------------------------- dispatch on the class
\* self.insert_edge(e) on a Digraph (dir) or a Graph (~dir)
insert_edge(dir, G, e) ==
    IF dir THEN Digraph_insert_edge(G, e) ELSE Graph_insert_edge(G, e)

\* self.remove_edge(u, v) on a Digraph (dir) or a Graph (~dir)
remove_edge(dir, G, u, v) ==
    IF dir THEN Digraph_remove_edge(G, u, v) ELSE Graph_remove_edge(G, u, v)

\* The loop of Digraph.remove_vertex removing the edges (u, u) as well.
RECURSIVE remove_vertex_loop_drops_loops(_, _, _, _)
remove_vertex_loop_drops_loops(dir, G, todo, v) ==
    IF todo = {} THEN G
    ELSE LET u  == CHOOSE x \in todo : TRUE
             G1 == remove_edge(dir, G, u, v).G
             G2 == remove_edge(dir, G1, v, u).G
             G3 == remove_edge(dir, G2, u, u).G
         IN  remove_vertex_loop_drops_loops(dir, G3, todo \ {u}, v)

\* The loop of Digraph.remove_vertex over the vertices still to visit.
RECURSIVE remove_vertex_loop(_, _, _, _)
remove_vertex_loop(dir, G, todo, v) ==
    IF todo = {} THEN G
    ELSE LET u  == CHOOSE x \in todo : TRUE
             G1 == remove_edge(dir, G, u, v).G
             G2 == remove_edge(dir, G1, v, u).G
         IN  remove_vertex_loop(dir, G2, todo \ {u}, v)

\* Digraph.remove_vertex without the loop over the incident edges.
remove_vertex_no_cascade(dir, G, v) ==
    IF validate_vertex(G, v) # "" THEN Raises(G, validate_vertex(G, v))
    ELSE Returns(Maps(DictPop(G.outgoing, v), DictPop(G.incoming, v)), None)

\* Digraph.remove_vertex(v)  (inherited by Graph; remove_edge is dispatched)
remove_vertex(dir, G, v) ==
    IF validate_vertex(G, v) # "" THEN Raises(G, validate_vertex(G, v))
    ELSE LET G1 == remove_vertex_loop(dir, G, vertices(G), v)
         IN  Returns(Maps(DictPop(G1.outgoing, v), DictPop(G1.incoming, v)), None)

\* ------------------------------------------------------------- containers
\* The elements the caller stores in a container.
Elements == {1, 2}

\* Python's None where an element is expected.
NoElement == 0

\* Python's None where a node is expected.
NoNode == -1

\* self._sentinel of a SinglyLinkedList; the nodes made later are 1, 2, ...
Sentinel == 0

\* The outcome of a container method: the container after the call, the
\* exception raised ("" when none) and the value returned.
ContainerOutcome(C, err, res) == [C |-> C, err |-> err, res |-> res]

\* DoublyLinkedList(): the storage of a LinkedQueue, front first.
DoublyLinkedList_init == <<>>

\* DoublyLinkedList.is_empty()
DoublyLinkedList_is_empty(Q) == Len(Q) = 0

\* DoublyLinkedList.push_back(e)
DoublyLinkedList_push_back(Q, e) == ContainerOutcome(Append(Q, e), "", NoElement)

\* DoublyLinkedList.pop_front() of a list that is not empty
DoublyLinkedList_pop_front(Q) == ContainerOutcome(Tail(Q), "", Head(Q))

\* DoublyLinkedList.first() of a list that is not empty
DoublyLinkedList_first(Q) == ContainerOutcome(Q, "", Head(Q))

\* LinkedQueue.__len__
LinkedQueue_len(Q) == Len(Q)

\* LinkedQueue.is_empty()
LinkedQueue_is_empty(Q) == DoublyLinkedList_is_empty(Q)

\* LinkedQueue.enqueue(e)
LinkedQueue_enqueue(Q, e) == DoublyLinkedList_push_back(Q, e)

\* LinkedQueue.dequeue()
LinkedQueue_dequeue(Q) ==
    IF LinkedQueue_is_empty(Q) THEN ContainerOutcome(Q, "EmptyQueueError", NoElement)
    ELSE DoublyLinkedList_pop_front(Q)

\* LinkedQueue.first()
LinkedQueue_first(Q) ==
    IF LinkedQueue_is_empty(Q) THEN ContainerOutcome(Q, "EmptyQueueError", NoElement)
    ELSE DoublyLinkedList_first(Q)

\* SinglyLinkedList.__init__: the sentinel node alone, and no element.
SinglyLinkedList_init ==
    [next    |-> [n \in {Sentinel} |-> NoNode],
     element |-> [n \in {Sentinel} |-> NoElement],
     size    |-> 0]

\* The nodes made so far, the sentinel included: whether linked or removed,
\* the caller may hold any of them as a position.
Positions(L) == DOMAIN L.next

\* SinglyLinkedList.__len__
SinglyLinkedList_len(L) == L.size

\* SinglyLinkedList.is_empty()
SinglyLinkedList_is_empty(L) == L.size = 0

\* SinglyLinkedList.insert_back(e, position): a new node after position.
SinglyLinkedList_insert_back(L, e, position) ==
    LET node == Cardinality(DOMAIN L.next)
    IN  ContainerOutcome(
            [next    |-> [n \in DOMAIN L.next \cup {node} |->
                             IF n = node THEN L.next[position]
                             ELSE IF n = position THEN node
                             ELSE L.next[n]],
             element |-> [n \in DOMAIN L.next \cup {node} |->
                             IF n = node THEN e ELSE L.element[n]],
             size    |-> L.size + 1],
            "", node)

\* SinglyLinkedList.remove_back(position) without the test for an empty list.
SinglyLinkedList_remove_back_unchecked(L, position) ==
    IF L.next[position] = NoNode
    THEN ContainerOutcome(L, "AttributeError", NoElement)
    ELSE ContainerOutcome([L EXCEPT !.next[position] = L.next[L.next[position]],
                                    !.size = @ - 1],
                          "", L.element[L.next[position]])

\* SinglyLinkedList.remove_back(position): the node after position is
\* unlinked.  With no node after position, position._next._element reads an
\* attribute of None.
SinglyLinkedList_remove_back(L, position) ==
    IF SinglyLinkedList_is_empty(L)
    THEN ContainerOutcome(L, "EmptyListError", NoElement)
    ELSE IF L.next[position] = NoNode
    THEN ContainerOutcome(L, "AttributeError", NoElement)
    ELSE ContainerOutcome([L EXCEPT !.next[position] = L.next[L.next[position]],
                                    !.size = @ - 1],
                          "", L.element[L.next[position]])

\* SinglyLinkedList.first_element()
SinglyLinkedList_first_element(L) ==
    IF SinglyLinkedList_is_empty(L)
    THEN ContainerOutcome(L, "EmptyListError", NoElement)
    ELSE IF L.next[Sentinel] = NoNode
    THEN ContainerOutcome(L, "AttributeError", NoElement)
    ELSE ContainerOutcome(L, "", L.element[L.next[Sentinel]])

\* SinglyLinkedList.remove_first()
SinglyLinkedList_remove_first(L) == SinglyLinkedList_remove_back(L, Sentinel)

\* ------------------------------------------------------------ the machine
\* The maps of the object now.
Now == Maps(outgoing, incoming)

\* A call of method op with outcome r.
Call(op, r) ==
    /\ outgoing' = r.G.outgoing
    /\ incoming' = r.G.incoming
    /\ last' = [op |-> op, err |-> r.err]
    /\ UNCHANGED <<directed, vertex, bfs, queue, slist>>

\* Digraph.__init__
InitMaps ==
    /\ outgoing = EmptyDict
    /\ incoming = EmptyDict
    /\ last = [op |-> "__init__", err |-> ""]
    /\ vertex = [v \in Vertices |-> Vertex_init]
    /\ bfs = BfsIdle(Vertices)
    /\ queue = DoublyLinkedList_init
    /\ slist = SinglyLinkedList_init

Init        == directed \in BOOLEAN /\ InitMaps
InitDigraph == directed = TRUE /\ InitMaps
InitGraph   == directed = FALSE /\ InitMaps

Do_insert_vertex ==
    \E v \in Vertices : Call("insert_vertex", Returns(insert_vertex(Now, v), None))

Do_insert_edge ==
    \E e \in Edges :
        /\ edge_count(Now) < MaxEdges
        /\ Call("insert_edge", insert_edge(directed, Now, e))

Do_remove_vertex ==
    \E v \in Vertices : Call("remove_vertex", remove_vertex(directed, Now, v))

Do_remove_edge ==
    \E u \in Vertices, v \in Vertices :
        Call("remove_edge", remove_edge(directed, Now, u, v))

Do_reverse == Call("reverse", Returns(reverse(Now), None))

Do_edge ==
    \E u \in Vertices, v \in Vertices : Call("edge", edge(Now, u, v))

Do_out_degree == \E v \in Vertices : Call("out_degree", out_degree(Now, v))

Do_in_degree == \E v \in Vertices : Call("in_degree", in_degree(Now, v))

Do_predecessors == \E v \in Vertices : Call("predecessors", predecessors(Now, v))

Do_successors == \E v \in Vertices : Call("successors", successors(Now, v))

Do_outgoing_edges ==
    \E v \in Vertices : Call("outgoing_edges", outgoing_edges(Now, v))

Do_incoming_edges ==
    \E v \in Vertices : Call("incoming_edges", incoming_edges(Now, v))

\* The methods that change the maps.
Mutate ==
    \/ Do_insert_vertex
    \/ Do_insert_edge
    \/ Do_remove_vertex
    \/ Do_remove_edge
    \/ Do_reverse

\* The methods that only read them.
Query ==
    \/ Do_edge
    \/ Do_out_degree
    \/ Do_in_degree
    \/ Do_predecessors
    \/ Do_successors
    \/ Do_outgoing_edges
    \/ Do_incoming_edges

Next == Mutate \/ Query

\* A Digraph or a Graph under every method.
Spec == Init /\ [][Next]_vars

\* A Digraph, and a Graph, under the methods that change the maps: a query
\* leaves both maps as they are, so these reach every pair of maps that Spec
\* reaches for that class.
SpecDigraph == InitDigraph /\ [][Mutate]_vars
SpecGraph   == InitGraph /\ [][Mutate]_vars

\* Either class under any sequence of calls of the methods that change it.
SpecMutate  == Init /\ [][Mutate]_vars

\* The maps are dicts of dicts of Edge objects keyed by vertices.
TypeOK ==
    /\ directed \in BOOLEAN
    /\ DOMAIN outgoing \subseteq Vertices
    /\ DOMAIN incoming \subseteq Vertices
    /\ \A u \in DOMAIN outgoing : DOMAIN outgoing[u] \subseteq Vertices
    /\ \A u \in DOMAIN outgoing : \A v \in DOMAIN outgoing[u] : outgoing[u][v] \in Edges

\* ---------------------------------------------------- breadth-first search
\* The keys of a dict in iteration order: the elements of S, increasing.
RECURSIVE Ordered(_)
Ordered(S) ==
    IF S = {} THEN <<>>
    ELSE LET m == CHOOSE x \in S : \A y \in S : x <= y
         IN  <<m>> \o Ordered(S \ {m})

\* The graph made by calling insert_edge for every pair of the sequence es.
RECURSIVE InsertEdges(_, _, _)
InsertEdges(dir, G, es) ==
    IF es = <<>> THEN G
    ELSE InsertEdges(dir, insert_edge(dir, G, Edge(Head(es)[1], Head(es)[2], 1)).G,
                     Tail(es))

\* The graph made by calling insert_vertex for every vertex of the sequence vs.
RECURSIVE InsertVertices(_, _)
InsertVertices(G, vs) ==
    IF vs = <<>> THEN G
    ELSE InsertVertices(insert_vertex(G, Head(vs)), Tail(vs))

\* The digraph that chap14/bfs.py builds: A, B, C, D are 1, 2, 3, 4.
ScenarioGraph ==
    InsertEdges(TRUE, Maps(EmptyDict, EmptyDict),
                <<<<1, 2>>, <<2, 1>>, <<1, 3>>, <<3, 1>>, <<1, 4>>, <<2, 3>>, <<2, 4>>>>)

\* The pairs of the set E, in lexicographic order.
RECURSIVE OrderedPairs(_)
OrderedPairs(E) ==
    IF E = {} THEN <<>>
    ELSE LET m == CHOOSE x \in E : \A y \in E :
                      x[1] < y[1] \/ (x[1] = y[1] /\ x[2] <= y[2])
         IN  <<m>> \o OrderedPairs(E \ {m})

\* The graphs a traversal is called on: up to NumBfsVertices vertices with
\* up to MaxBfsEdges edges among them, and the digraph of chap14/bfs.py.
BfsGraphs(dir) ==
    {InsertEdges(dir, InsertVertices(Maps(EmptyDict, EmptyDict), Ordered(1 .. k)),
                 OrderedPairs(E)) :
        k \in 0 .. NumBfsVertices,
        E \in {F \in SUBSET ((1 .. NumBfsVertices) \X (1 .. NumBfsVertices)) :
                  Cardinality(F) <= MaxBfsEdges}}
    \cup (IF dir THEN {ScenarioGraph} ELSE {})

\* Initialisation: every vertex white, at distance infinity, without predecessor.
bfs_initialize(vx) ==
    [v \in DOMAIN vx |->
        [vx[v] EXCEPT !.color = "white", !.distance = Infinity,
                      !.predecessor = NoVertex]]

\* A source s turns gray at distance zero and gets the discover number t.
bfs_seed(vx, s, t) ==
    [vx EXCEPT ![s] = [@ EXCEPT !.color = "gray", !.distance = 0, !.discover = t]]

\* A white successor v of u is discovered at the same distance as u.
bfs_discover_same_distance(vx, u, v, t) ==
    [vx EXCEPT ![v] = [@ EXCEPT !.color = "gray", !.predecessor = u,
                                !.distance = vx[u].distance, !.discover = t]]

\* A white successor v of the dequeued vertex u is discovered: predecessor u,
\* distance one more than that of u, gray, discover number t.
bfs_discover(vx, u, v, t) ==
    [vx EXCEPT ![v] = [@ EXCEPT !.color = "gray", !.predecessor = u,
                                !.distance = vx[u].distance + 1, !.discover = t]]

\* The dequeued vertex u gets the finish number t and stays gray.
bfs_finish_leaves_gray(vx, u, t) ==
    [vx EXCEPT ![u] = [@ EXCEPT !.finish = t]]

\* The dequeued vertex u turns black and gets the finish number t.
bfs_finish(vx, u, t) ==
    [vx EXCEPT ![u] = [@ EXCEPT !.color = "black", !.finish = t]]

\* A traversal call begins and goes on counting where the last one stopped.
bfs_begin_keeps_counter(st, mode, s, VS) ==
    [st EXCEPT !.pc = "restart", !.mode = mode, !.source = s, !.queue = <<>>,
               !.cur = NoVertex, !.todo = <<>>,
               !.rest = IF mode = "single" THEN <<s>> ELSE Ordered(VS),
               !.runs = @ + 1, !.enq = [v \in VS |-> 0]]

\* A traversal call begins: an empty frontier, the counter at zero, and the
\* vertices to start from: the source, or every vertex of the graph in order.
bfs_begin(st, mode, s, VS) ==
    [st EXCEPT !.pc = "restart", !.mode = mode, !.source = s, !.queue = <<>>,
               !.time = 0, !.cur = NoVertex, !.todo = <<>>,
               !.rest = IF mode = "single" THEN <<s>> ELSE Ordered(VS),
               !.runs = @ + 1, !.enq = [v \in VS |-> 0]]

\* Vertex v enters the FIFO frontier.
bfs_enqueue(st, v) ==
    [st EXCEPT !.queue = Append(@, v), !.enq[v] = @ + 1]

\* breadth_first_search(g, s) is called.
breadth_first_search ==
    /\ bfs.pc = "idle"
    /\ \E s \in vertices(Now) :
        bfs' = bfs_begin(bfs, "single", s, vertices(Now))
    /\ vertex' = bfs_initialize(vertex)
    /\ UNCHANGED <<directed, outgoing, incoming, last, queue, slist>>

\* complete_breadth_first_search(g) is called.
complete_breadth_first_search ==
    /\ bfs.pc = "idle"
    /\ bfs' = bfs_begin(bfs, "complete", NoVertex, vertices(Now))
    /\ vertex' = bfs_initialize(vertex)
    /\ UNCHANGED <<directed, outgoing, incoming, last, queue, slist>>

\* complete_breadth_first_search(g) is called a second time on the same graph.
complete_breadth_first_search_again ==
    /\ bfs.pc = "done" /\ bfs.mode = "complete" /\ bfs.runs = 1
    /\ bfs' = [bfs_begin(bfs, "complete", NoVertex, vertices(Now))
                  EXCEPT !.first = vertex]
    /\ vertex' = bfs_initialize(vertex)
    /\ UNCHANGED <<directed, outgoing, incoming, last, queue, slist>>

\* The next vertex to start from: a white one is seeded, any other is skipped;
\* when none is left the call returns.
bfs_restart ==
    /\ bfs.pc = "restart"
    /\ IF bfs.rest = <<>>
       THEN /\ bfs' = [bfs EXCEPT !.pc = "done"]
            /\ UNCHANGED vertex
       ELSE LET s == Head(bfs.rest)
            IN  IF vertex[s].color = "white"
                THEN /\ vertex' = bfs_seed(vertex, s, bfs.time + 1)
                     /\ bfs' = [bfs_enqueue(bfs, s) EXCEPT !.time = @ + 1,
                                                          !.rest = Tail(@),
                                                          !.pc = "loop"]
                ELSE /\ bfs' = [bfs EXCEPT !.rest = Tail(@)]
                     /\ UNCHANGED vertex
    /\ UNCHANGED <<directed, outgoing, incoming, last, queue, slist>>

\* The frontier loop: a vertex is dequeued and its successors are to be scanned;
\* with an empty frontier the traversal from this source is over.
bfs_dequeue ==
    /\ bfs.pc = "loop"
    /\ IF bfs.queue = <<>>
       THEN bfs' = [bfs EXCEPT !.pc = "restart"]
       ELSE bfs' = [bfs EXCEPT !.cur = Head(bfs.queue), !.queue = Tail(@),
                               !.todo = Ordered(successors(Now, Head(bfs.queue)).keys),
                               !.pc = "scan"]
    /\ UNCHANGED <<directed, outgoing, incoming, last, vertex, queue, slist>>

\* The next successor of the dequeued vertex is scanned.
bfs_scan ==
    /\ bfs.pc = "scan" /\ bfs.todo # <<>>
    /\ LET v == Head(bfs.todo)
       IN  IF vertex[v].color = "white"
           THEN /\ vertex' = bfs_discover(vertex, bfs.cur, v, bfs.time + 1)
                /\ bfs' = [bfs_enqueue(bfs, v) EXCEPT !.time = @ + 1,
                                                     !.todo = Tail(@)]
           ELSE /\ bfs' = [bfs EXCEPT !.todo = Tail(@)]
                /\ UNCHANGED vertex
    /\ UNCHANGED <<directed, outgoing, incoming, last, queue, slist>>

\* Every successor of the dequeued vertex has been scanned.
bfs_blacken ==
    /\ bfs.pc = "scan" /\ bfs.todo = <<>>
    /\ vertex' = bfs_finish(vertex, bfs.cur, bfs.time + 1)
    /\ bfs' = [bfs EXCEPT !.time = @ + 1, !.cur = NoVertex, !.pc = "loop"]
    /\ UNCHANGED <<directed, outgoing, incoming, last, queue, slist>>

\* A Digraph or a Graph, built and then left alone, that was never traversed.
InitBFS ==
    /\ directed \in BOOLEAN
    /\ \E G \in BfsGraphs(directed) :
        /\ outgoing = G.outgoing
        /\ incoming = G.incoming
    /\ last = [op |-> "__init__", err |-> ""]
    /\ vertex = [v \in DOMAIN outgoing |-> Vertex_init]
    /\ bfs = BfsIdle(DOMAIN outgoing)
    /\ queue = DoublyLinkedList_init
    /\ slist = SinglyLinkedList_init

NextBFS ==
    \/ breadth_first_search
    \/ complete_breadth_first_search
    \/ complete_breadth_first_search_again
    \/ bfs_restart
    \/ bfs_dequeue
    \/ bfs_scan
    \/ bfs_blacken

\* The traversals of a static graph.  A call runs to completion (the program
\* is single-threaded), so every step of it is taken eventually.
SpecBFS == InitBFS /\ [][NextBFS]_vars /\ WF_vars(NextBFS)

\* ------------------------------------------------- the container machine
\* A call of method op on the LinkedQueue with outcome r.
QueueCall(op, r) ==
    /\ queue' = r.C
    /\ last' = [op |-> op, err |-> r.err]
    /\ UNCHANGED <<directed, outgoing, incoming, vertex, bfs, slist>>

\* A call of method op on the SinglyLinkedList with outcome r.
ListCall(op, r) ==
    /\ slist' = r.C
    /\ last' = [op |-> op, err |-> r.err]
    /\ UNCHANGED <<directed, outgoing, incoming, vertex, bfs, queue>>

Do_enqueue ==
    \E e \in Elements :
        /\ LinkedQueue_len(queue) < MaxQueue
        /\ QueueCall("enqueue", LinkedQueue_enqueue(queue, e))

Do_dequeue == QueueCall("dequeue", LinkedQueue_dequeue(queue))

Do_first == QueueCall("first", LinkedQueue_first(queue))

Do_list_insert_back ==
    \E e \in Elements, p \in Positions(slist) :
        /\ Cardinality(Positions(slist)) <= MaxNodes
        /\ ListCall("insert_back", SinglyLinkedList_insert_back(slist, e, p))

Do_list_remove_back ==
    \E p \in Positions(slist) :
        ListCall("remove_back", SinglyLinkedList_remove_back(slist, p))

Do_list_first_element ==
    ListCall("first_element", SinglyLinkedList_first_element(slist))

Do_list_remove_first ==
    ListCall("remove_first", SinglyLinkedList_remove_first(slist))

\* LinkedQueue.__init__ and SinglyLinkedList.__init__
InitContainers == InitDigraph

NextContainers ==
    \/ Do_enqueue
    \/ Do_dequeue
    \/ Do_first
    \/ Do_list_insert_back
    \/ Do_list_remove_back
    \/ Do_list_first_element
    \/ Do_list_remove_first

\* A LinkedQueue and a SinglyLinkedList under any sequence of calls.
SpecContainers == InitContainers /\ [][NextContainers]_vars

\* ------------------------------------------------------------- properties
\* The entry for the ordered pair (u, v) of the outgoing map of G is present.
HasOut(G, u, v) == u \in DOMAIN G.outgoing /\ v \in DOMAIN G.outgoing[u]

\* The entry of the incoming map of G that mirrors (u, v) is present.
HasInc(G, u, v) == v \in DOMAIN G.incoming /\ u \in DOMAIN G.incoming[v]

\* The ordered pairs (u, v) of members for which edge(u, v) is present.
AdjacentPairs(G) ==
    {p \in vertices(G) \X vertices(G) : edge_lookup(G, p[1], p[2]) # None}

\* Every query on v fails with the not-a-member error.
AllQueriesRaise(G, v) ==
    /\ \A w \in Vertices : edge(G, v, w).err = "ValueError"
    /\ \A w \in Vertices : edge(G, w, v).err = "ValueError"
    /\ out_degree(G, v).err = "ValueError"
    /\ in_degree(G, v).err = "ValueError"
    /\ successors(G, v).err = "ValueError"
    /\ predecessors(G, v).err = "ValueError"
    /\ outgoing_edges(G, v).err = "ValueError"
    /\ incoming_edges(G, v).err = "ValueError"

\* C1: in every state of a Digraph the two maps have the same key set, v is a
\* key of outgoing[u] exactly when u is a key of incoming[v], and the two
\* entries hold the same Edge object.
C1_MapsAgree ==
    /\ DOMAIN outgoing = DOMAIN incoming
    /\ \A u \in Vertices, v \in Vertices :
        /\ HasOut(Now, u, v) <=> HasInc(Now, u, v)
        /\ HasOut(Now, u, v) /\ HasInc(Now, u, v) => outgoing[u][v] = incoming[v][u]

\* C1 witness: a remove_vertex has run on a Digraph and left a member with a
\* self-loop, recorded in both maps.
C1_Witness ==
    /\ directed
    /\ last.op = "remove_vertex" /\ last.err = ""
    /\ \E u \in vertices(Now) : HasOut(Now, u, u) /\ HasInc(Now, u, u)

\* C2: from every state of a Digraph and for every Edge e = (u, v), members or
\* not, insert_edge(e) returns e and leaves u and v members, edge(u, v) = e,
\* v in successors(u) and u in predecessors(v).
C2_InsertEdgePost ==
    \A e \in Edges :
        LET r == insert_edge(directed, Now, e)
            u == e.head
            v == e.tail
        IN  /\ r.err = "" /\ r.res = e
            /\ contains(r.G, u) /\ contains(r.G, v)
            /\ edge(r.G, u, v).err = "" /\ edge(r.G, u, v).res = e
            /\ successors(r.G, u).err = "" /\ v \in successors(r.G, u).keys
            /\ predecessors(r.G, v).err = "" /\ u \in predecessors(r.G, v).keys

\* C2 witness: an insert_edge has run on a Digraph, and there is an Edge object
\* from a member that has an edge to a vertex that is not a member.
C2_Witness ==
    /\ directed
    /\ last.op = "insert_edge"
    /\ \E e \in Edges :
        contains(Now, e.head) /\ ~contains(Now, e.tail) /\ HasOut(Now, e.head, e.head)

\* C3: in every state of a Graph and for all members u, v: edge(u, v) is
\* present exactly when edge(v, u) is, both are the same Edge object, and
\* remove_edge(u, v) leaves both absent.
C3_GraphSymmetric ==
    \A u \in vertices(Now), v \in vertices(Now) :
        LET r == remove_edge(directed, Now, u, v)
        IN  /\ edge(Now, u, v).res # None <=> edge(Now, v, u).res # None
            /\ edge(Now, u, v).res = edge(Now, v, u).res
            /\ r.err = ""
            /\ edge(r.G, u, v).res = None /\ edge(r.G, v, u).res = None

\* C3 witness: a remove_edge has run on a Graph that still has an edge between
\* two different members.
C3_Witness ==
    /\ ~directed
    /\ last.op = "remove_edge" /\ last.err = ""
    /\ \E u \in vertices(Now), v \in vertices(Now) : u # v /\ HasOut(Now, u, v)

\* C4: from every state of a Digraph or Graph and for every member v,
\* remove_vertex(v) leaves v a key of neither map and of no remaining vertex's
\* secondary map, and every query on v then raises the not-a-member error.
C4_RemoveVertexPost ==
    \A v \in vertices(Now) :
        \A r \in {remove_vertex(directed, Now, v)} :
            /\ r.err = ""
            /\ v \notin DOMAIN r.G.outgoing /\ v \notin DOMAIN r.G.incoming
            /\ \A u \in DOMAIN r.G.outgoing : v \notin DOMAIN r.G.outgoing[u]
            /\ \A u \in DOMAIN r.G.incoming : v \notin DOMAIN r.G.incoming[u]
            /\ AllQueriesRaise(r.G, v)

\* C4 witness: a remove_vertex has run on a Graph, one vertex is no longer a
\* member and the remaining member has a self-loop.
C4_Witness ==
    /\ ~directed
    /\ last.op = "remove_vertex" /\ last.err = ""
    /\ vertex_count(Now) = NumVertices - 1
    /\ \E v \in vertices(Now) : HasOut(Now, v, v)

\* C5: from every state of a Digraph, reverse() keeps the vertex set, makes
\* edge(u, v) present exactly when edge(v, u) was present, and a second
\* reverse() gives back both maps as they were.
C5_ReverseInvolution ==
    LET R == reverse(Now)
    IN  /\ vertices(R) = vertices(Now)
        /\ \A u \in vertices(Now), v \in vertices(Now) :
               edge(R, u, v).res # None <=> edge(Now, v, u).res # None
        /\ reverse(R) = Now

\* C5 witness: a reverse has run on a Digraph with an edge that has no edge
\* back.
C5_Witness ==
    /\ directed
    /\ last.op = "reverse"
    /\ \E u \in vertices(Now), v \in vertices(Now) :
        u # v /\ HasOut(Now, u, v) /\ ~HasOut(Now, v, u)

\* C6: in every state of a Digraph or Graph, each validating method called
\* with a non-member vertex in any argument position raises the not-a-member
\* error and leaves both maps as they were.
C6_NonMemberRaises ==
    /\ \A u \in Vertices, v \in Vertices :
        ~contains(Now, u) \/ ~contains(Now, v) =>
            /\ edge(Now, u, v).err = "ValueError" /\ edge(Now, u, v).G = Now
            /\ remove_edge(directed, Now, u, v).err = "ValueError"
            /\ remove_edge(directed, Now, u, v).G = Now
    /\ \A v \in Vertices :
        ~contains(Now, v) =>
            /\ out_degree(Now, v).err = "ValueError" /\ out_degree(Now, v).G = Now
            /\ in_degree(Now, v).err = "ValueError" /\ in_degree(Now, v).G = Now
            /\ predecessors(Now, v).err = "ValueError" /\ predecessors(Now, v).G = Now
            /\ successors(Now, v).err = "ValueError" /\ successors(Now, v).G = Now
            /\ outgoing_edges(Now, v).err = "ValueError" /\ outgoing_edges(Now, v).G = Now
            /\ incoming_edges(Now, v).err = "ValueError" /\ incoming_edges(Now, v).G = Now
            /\ remove_vertex(directed, Now, v).err = "ValueError"
            /\ remove_vertex(directed, Now, v).G = Now

\* C6 witness: a remove_edge has raised the not-a-member error on a graph
\* that has a member with an edge.
C6_Witness ==
    /\ last.op = "remove_edge" /\ last.err = "ValueError"
    /\ \E u \in vertices(Now) : HasOut(Now, u, u)
    /\ vertices(Now) # Vertices

\* C7: from every state of a Digraph and for all members u, v, remove_edge(u, v)
\* returns what edge(u, v) returned before it and leaves edge(u, v) absent;
\* when u and v are not adjacent it returns None, raises nothing and changes
\* nothing.
C7_RemoveEdgeReturns ==
    \A u \in vertices(Now), v \in vertices(Now) :
        LET r == remove_edge(directed, Now, u, v)
        IN  /\ r.err = ""
            /\ r.res = edge(Now, u, v).res
            /\ edge(r.G, u, v).err = "" /\ edge(r.G, u, v).res = None
            /\ edge(Now, u, v).res = None => r.res = None /\ r.G = Now

\* C7 witness: a remove_edge has returned on a Digraph that has both an
\* adjacent and a non-adjacent ordered pair of members.
C7_Witness ==
    /\ directed
    /\ last.op = "remove_edge" /\ last.err = ""
    /\ \E u \in vertices(Now), v \in vertices(Now) : HasOut(Now, u, v)
    /\ \E u \in vertices(Now), v \in vertices(Now) : ~HasOut(Now, u, v)

\* C8: from every state of a Digraph and for members u # v, remove_edge(u, v)
\* keeps the vertex set and every entry of both maps other than that of
\* (u, v); in particular edge(v, u) is what it was.
C8_RemoveEdgeFrame ==
    \A u \in vertices(Now), v \in vertices(Now) :
        u # v =>
            LET r == remove_edge(directed, Now, u, v)
            IN  /\ DOMAIN r.G.outgoing = DOMAIN outgoing
                /\ DOMAIN r.G.incoming = DOMAIN incoming
                /\ edge(r.G, v, u).res = edge(Now, v, u).res
                /\ \A a \in Vertices, b \in Vertices :
                    <<a, b>> # <<u, v>> =>
                        /\ HasOut(r.G, a, b) <=> HasOut(Now, a, b)
                        /\ HasOut(Now, a, b) => r.G.outgoing[a][b] = outgoing[a][b]
                        /\ HasInc(r.G, a, b) <=> HasInc(Now, a, b)
                        /\ HasInc(Now, a, b) => r.G.incoming[b][a] = incoming[b][a]

\* C8 witness: a remove_edge has returned on a Digraph in which two different
\* members have an edge in each direction.
C8_Witness ==
    /\ directed
    /\ last.op = "remove_edge" /\ last.err = ""
    /\ \E u \in vertices(Now), v \in vertices(Now) :
        u # v /\ HasOut(Now, u, v) /\ HasOut(Now, v, u)

\* C9: from every state of a Graph and for all members u, v (u = v included),
\* remove_edge(u, v) returns the removed edge whenever an edge between u and v
\* existed, and returns None only when none existed.
C9_GraphRemoveEdgeReturns ==
    \A u \in vertices(Now), v \in vertices(Now) :
        LET r == remove_edge(directed, Now, u, v)
            existed == edge(Now, u, v).res # None \/ edge(Now, v, u).res # None
        IN  /\ existed => r.res \in {edge(Now, u, v).res, edge(Now, v, u).res} \ {None}
            /\ r.res = None => ~existed

\* C10: in every state of a Digraph, vertex_count() is the number of members
\* and edge_count() is both the number of ordered pairs (u, v) with edge(u, v)
\* present and the number of elements of edges().
C10_Counts ==
    /\ vertex_count(Now) = Cardinality(vertices(Now))
    /\ edge_count(Now) = Cardinality(AdjacentPairs(Now))
    /\ edge_count(Now) = Cardinality(edges(Now))

C12_EntriesPointForward ==
    \A u \in vertices(Now), v \in vertices(Now) :
        /\ edge(Now, u, v).res # None => endpoints(edge(Now, u, v).res) = <<u, v>>
        /\ \A e \in outgoing_edges(Now, u).es : e.head = u
        /\ \A e \in incoming_edges(Now, v).es : e.tail = v

\* C16 as claimed: in a Graph, for u # v, inserting e1 = (u, v, tag1) and then
\* e2 = (v, u, tag2) leaves edge(u, v) = e1 and edge(v, u) = e2.
C16_TwoEntriesKept ==
    \A e1 \in Edges, e2 \in Edges :
        e1.head # e1.tail /\ endpoints(e2) = <<e1.tail, e1.head>> /\ e1.tag # e2.tag =>
            LET G1 == insert_edge(directed, Now, e1).G
                G2 == insert_edge(directed, G1, e2).G
            IN  /\ edge(G2, e1.head, e1.tail).res = e1
                /\ edge(G2, e1.tail, e1.head).res = e2

\* C16 amended: in a Graph, for u # v, inserting e1 = (u, v, tag1) and then
\* e2 = (v, u, tag2) leaves one edge: edge(u, v) and edge(v, u) both return
\* e2, in the outgoing and in the incoming map.
C16_SecondInsertOverwritesBoth ==
    \A e1 \in Edges, e2 \in Edges :
        e1.head # e1.tail /\ endpoints(e2) = <<e1.tail, e1.head>> /\ e1.tag # e2.tag =>
            LET G1 == insert_edge(directed, Now, e1).G
                G2 == insert_edge(directed, G1, e2).G
                u  == e1.head
                v  == e1.tail
            IN  /\ edge(G2, u, v).res = e2 /\ edge(G2, v, u).res = e2
                /\ G2.incoming[v][u] = e2 /\ G2.incoming[u][v] = e2

\* C16 witness: an insert_edge has run on a Graph and the entry for (u, v),
\* u # v, holds an Edge object made for (v, u), the same as the entry for (v, u).
C16_Witness ==
    /\ ~directed
    /\ last.op = "insert_edge"
    /\ \E u \in vertices(Now), v \in vertices(Now) :
        /\ u # v /\ HasOut(Now, u, v) /\ HasOut(Now, v, u)
        /\ outgoing[u][v] = outgoing[v][u] /\ endpoints(outgoing[u][v]) = <<v, u>>

\* C17: from every state of a Digraph in which edge(u, v) returns an edge e1
\* from u to v, inserting another Edge object e2 from u to v leaves edge(u, v) = e2 in both
\* maps, e1 returned by no query, edge_count() and vertex_count() as they
\* were, and every entry other than that of (u, v) as it was.
C17_LastWriteWins ==
    \A e2 \in Edges :
        LET u  == e2.head
            v  == e2.tail
            e1 == IF HasOut(Now, u, v) THEN outgoing[u][v] ELSE None
            r  == insert_edge(directed, Now, e2)
        IN  e1 # None /\ e1 # e2 /\ endpoints(e1) = <<u, v>> =>
                /\ edge(r.G, u, v).res = e2 /\ r.G.incoming[v][u] = e2
                /\ \A a \in vertices(r.G), b \in vertices(r.G) : edge(r.G, a, b).res # e1
                /\ \A a \in vertices(r.G) : e1 \notin outgoing_edges(r.G, a).es
                /\ \A a \in vertices(r.G) : e1 \notin incoming_edges(r.G, a).es
                /\ edge_count(r.G) = edge_count(Now)
                /\ vertex_count(r.G) = vertex_count(Now)
                /\ \A a \in Vertices, b \in Vertices :
                    <<a, b>> # <<u, v>> =>
                        /\ HasOut(r.G, a, b) <=> HasOut(Now, a, b)
                        /\ HasOut(Now, a, b) => r.G.outgoing[a][b] = outgoing[a][b]
                        /\ HasInc(r.G, a, b) <=> HasInc(Now, a, b)
                        /\ HasInc(Now, a, b) => r.G.incoming[b][a] = incoming[b][a]

\* The unordered pairs {u, v} of members of G with an edge between them.
UndirectedPairs(G) ==
    {{p[1], p[2]} : p \in AdjacentPairs(G)}

\* C18: in every state of a Graph, edges() has one element per undirected edge
\* and edge_count() is the number of elements of edges().
C18_GraphEdgeCount ==
    /\ Cardinality(edges(Now)) = Cardinality(UndirectedPairs(Now))
    /\ edge_count(Now) = Cardinality(edges(Now))

RECURSIVE Within(_, _, _)
Within(G, s, n) ==
    IF n = 0 THEN {s}
    ELSE LET B == Within(G, s, n - 1)
         IN  B \cup {v \in vertices(G) : \E u \in B : HasOut(G, u, v)}

\* The vertices of G reachable from s.
Reachable(G, s) == Within(G, s, vertex_count(G))

\* The minimum number of edges on a path from s to the reachable vertex v.
PathLength(G, s, v) ==
    CHOOSE n \in 0 .. vertex_count(G) :
        v \in Within(G, s, n) /\ (n = 0 \/ v \notin Within(G, s, n - 1))

\* C13: when breadth_first_search(g, s) has returned, s has distance 0 and no
\* predecessor; every vertex v reachable from s has as distance the minimum
\* number of edges on a path from s to v and, when it is not s, a predecessor p
\* with an edge p -> v and distance(p) + 1 = distance(v); every other vertex
\* has distance infinity and no predecessor.  On the digraph of chap14/bfs.py
\* seeded at A the vertices B, C and D get distance 1 and predecessor A.
C13_SingleSource ==
    (bfs.pc = "done" /\ bfs.mode = "single") =>
        LET s == bfs.source
        IN  /\ vertex[s].distance = 0
            /\ vertex[s].predecessor = NoVertex
            /\ \A v \in Reachable(Now, s) :
                /\ vertex[v].distance = PathLength(Now, s, v)
                /\ v # s =>
                    LET p == vertex[v].predecessor
                    IN  /\ p \in vertices(Now)
                        /\ HasOut(Now, p, v)
                        /\ vertex[p].distance + 1 = vertex[v].distance
            /\ \A v \in vertices(Now) \ Reachable(Now, s) :
                /\ vertex[v].distance = Infinity
                /\ vertex[v].predecessor = NoVertex
            /\ (Now = ScenarioGraph /\ s = 1) =>
                \A v \in {2, 3, 4} :
                    vertex[v].distance = 1 /\ vertex[v].predecessor = 1

\* C13 witness: a single-source search has returned on a graph that has a
\* vertex two edges away from the source.
C13_Witness ==
    /\ bfs.pc = "done" /\ bfs.mode = "single"
    /\ \E v \in vertices(Now) : vertex[v].distance = 2

\* The vertices in the FIFO frontier.
Frontier == {bfs.queue[i] : i \in 1 .. Len(bfs.queue)}

\* white, gray, black in the order a traversal moves through them.
ColourRank(c) == IF c = "white" THEN 0 ELSE IF c = "gray" THEN 1 ELSE 2

\* A step of a traversal call in progress never moves a colour backwards.
ColoursAdvance ==
    bfs'.runs = bfs.runs =>
        \A v \in DOMAIN vertex :
            ColourRank(vertex'[v].color) >= ColourRank(vertex[v].color)

\* When a complete traversal has returned every vertex is black.
AllBlackAtReturn ==
    (bfs.pc = "done" /\ bfs.mode = "complete") =>
        \A v \in vertices(Now) : vertex[v].color = "black"

\* During one traversal call no vertex has been enqueued twice.
EnqueuedOnce == \A v \in DOMAIN vertex : bfs.enq[v] <= 1

\* C14 as stated: a complete traversal returns, with every vertex black;
\* colours never move backwards; a vertex is in the frontier exactly while it
\* is gray; no vertex is enqueued twice.
C14_GrayExactlyInFrontier ==
    /\ (bfs.mode = "complete") ~> (bfs.pc = "done")
    /\ [][ColoursAdvance]_vars
    /\ [](/\ AllBlackAtReturn
          /\ EnqueuedOnce
          /\ bfs.mode = "complete" =>
                \A v \in DOMAIN vertex :
                    vertex[v].color = "gray" <=> v \in Frontier)

\* C14 amended: as stated, except that a vertex is gray exactly while it is in
\* the frontier or is the dequeued vertex whose successors are being scanned.
C14_GrayInFrontierOrScanned ==
    /\ (bfs.mode = "complete") ~> (bfs.pc = "done")
    /\ [][ColoursAdvance]_vars
    /\ [](/\ AllBlackAtReturn
          /\ EnqueuedOnce
          /\ bfs.mode = "complete" =>
                \A v \in DOMAIN vertex :
                    vertex[v].color = "gray" <=> (v \in Frontier \/ v = bfs.cur))

\* C14 witness: a complete traversal is scanning the successors of a dequeued
\* vertex while another vertex waits in the frontier and a third is black.
C14_Witness ==
    /\ bfs.mode = "complete" /\ bfs.pc = "scan"
    /\ Frontier # {}
    /\ \E v \in DOMAIN vertex : vertex[v].color = "black"

C20_EmptyContainerErrors ==
    LET qcalls == {LinkedQueue_dequeue(queue), LinkedQueue_first(queue)}
        lcalls == {SinglyLinkedList_first_element(slist),
                   SinglyLinkedList_remove_first(slist)}
                  \cup {SinglyLinkedList_remove_back(slist, p) : p \in Positions(slist)}
    IN  /\ \A r \in qcalls :
            IF LinkedQueue_is_empty(queue)
            THEN r.err = "EmptyQueueError" /\ r.C = queue /\ LinkedQueue_len(r.C) = 0
            ELSE r.err # "EmptyQueueError"
        /\ \A r \in lcalls :
            IF SinglyLinkedList_is_empty(slist)
            THEN r.err = "EmptyListError" /\ r.C = slist /\ SinglyLinkedList_len(r.C) = 0
            ELSE r.err # "EmptyListError"

\* C20 witness: remove_back(p) has raised EmptyListError on a list that was
\* filled and emptied again, while the queue holds an element.
C20_Witness ==
    /\ last.op = "remove_back" /\ last.err = "EmptyListError"
    /\ Cardinality(Positions(slist)) > 1
    /\ ~LinkedQueue_is_empty(queue)


\* The nodes met by following _next from node n, those of seen included.
RECURSIVE Walk(_, _, _)
Walk(L, n, seen) ==
    IF n = NoNode \/ n \in seen THEN seen
    ELSE Walk(L, L.next[n], seen \cup {n})

\* The nodes of the elements reachable from the sentinel.
ReachableNodes(L) == Walk(L, L.next[Sentinel], {})

\* C21: in every state that insert_back(e), insert_back(e, p), remove_back(p)
\* and remove_first() reach, p being the default or a node insert_back has
\* returned, len(list) is the number of elements reachable from the sentinel,
\* and remove_back(p) and remove_first() either raise EmptyListError or
\* complete, removing exactly the element after p and returning it.
C21_LengthIsReachableCount ==
    /\ SinglyLinkedList_len(slist) = Cardinality(ReachableNodes(slist))
    /\ \A p \in Positions(slist) :
        \A r \in {SinglyLinkedList_remove_back(slist, p)} :
            /\ r.err \in {"", "EmptyListError"}
            /\ r.err = "" =>
                /\ r.res = slist.element[slist.next[p]]
                /\ ReachableNodes(r.C) = ReachableNodes(slist) \ {slist.next[p]}
                /\ SinglyLinkedList_len(r.C) = Cardinality(ReachableNodes(r.C))
    /\ \A e \in Elements, p \in Positions(slist) :
        \A r \in {SinglyLinkedList_insert_back(slist, e, p)} :
            /\ r.err = ""
            /\ SinglyLinkedList_len(r.C) = Cardinality(ReachableNodes(r.C))

====
